---- MODULE Spec2Model ----
(***************************************************************************)
(* Model of the real-time subtitle pipeline:                               *)
(*   modules/realtime_subtitle_system.py  RealTimeSubtitleSystem           *)
(*   modules/subtitle_renderer.py         SubtitleRenderer                 *)
(*   modules/speech_to_text.py            SpeechToText                     *)
(*   modules/audio_capture.py             AudioCapture                     *)
(*   modules/translation.py               Translation                      *)
(*   modules/language_detection.py        LanguageDetection                *)
(*                                                                         *)
(* Texts are tuples of one-character strings, so that len(), strip() and   *)
(* truthiness are computed as Python computes them.  An attribute that is  *)
(* None or one value (fade_timer, cached_language) is the empty set or a   *)
(* one-element set; a tk timer id is a positive number.                    *)
(***************************************************************************)
EXTENDS Integers, Sequences, FiniteSets, TLC

----------------------------------------------------------------------------
(* Bounds of the model *)

\* largest max_lines a renderer is configured with in RendererSpec
MaxLinesBound == 2
\* number of consecutive show_subtitle calls (no removal in between) in a run
\* of RendererSpec
MaxShows == 3
\* the clock stops advancing this many seconds after StartTime
MaxElapsed == 6
\* number of transcription results in a run of Spec, each of them delivered by
\* a recognizer callback or given to an awaited _handle_transcription
MaxTranscripts == 2
\* at most this many of them are delivered by a recognizer callback
MaxResults == 1
\* the clock of Spec stops advancing after this many minutes
MaxMinutes == 1
\* no microphone stream is opened while this many streams are capturing
MaxStreams == 2
\* the recognizer reports at most this many final results it did not recognize
MaxUnrecognized == 1
\* no recognizer is started while this many recognition sessions are open or
\* have ended without their session_stopped event having been delivered
MaxSessions == 2
\* initialize() is not called while this many GUI threads it started have not
\* yet reached the creation of their window
MaxGuiThreads == 2

----------------------------------------------------------------------------
(* Program constants *)

\* SubtitleRenderer config passed by _init_subtitle_renderer
OrchestratorMaxLines == 2
FadeTimeout == 5
\* _handle_transcription: detection only for len(text) > 15
DetectMinLen == 15
\* LanguageDetection.detect_language: len(text.strip()) < 10
StripMinLen == 10
\* confidence_threshold 0.7, in percent
ConfidenceThreshold == 70
\* cache_expiry, seconds
CacheExpiry == 60
\* value of time.time() at construction (any value >= CacheExpiry behaves alike,
\* last_detection_time starts at 0)
StartTime == 100

None == "None"

Rep(c, n) == [i \in 1..n |-> c]

\* ''  (falsy)
TextEmpty == <<>>
\* '  '  (truthy, but text.strip() is '')
TextBlank == Rep(" ", 2)
\* 'Hola aaaa', 9 characters
TextShort == <<"H", "o", "l", "a", " ">> \o Rep("a", 4)
\* 'Hola aaaaaaaaaaa', 16 characters
TextLong == <<"H", "o", "l", "a", " ">> \o Rep("a", 11)

Texts == {TextEmpty, TextBlank, TextShort, TextLong}

\* the transcription results given to _handle_transcription in the model:
\* every text as a final result, the long one also as an interim result
Transcriptions ==
    [text : Texts, is_final : {TRUE}] \cup [text : {TextLong}, is_final : {FALSE}]

\* the results the recognizer reports in the model: an empty and a non-empty
\* text as final results, the non-empty one also as an interim result (the
\* callbacks of SpeechToText pass the text on without reading it)
RecognizerResults ==
    [text : {TextEmpty, TextLong}, is_final : {TRUE}]
        \cup [text : {TextLong}, is_final : {FALSE}]
Languages == {"en", "es"}
CaptionTexts == {<<"A">>, <<"B">>, <<"C">>}

----------------------------------------------------------------------------
VARIABLES
    \* RealTimeSubtitleSystem
    is_running,          \* self.is_running
    current_language,    \* self.current_language
    renderer,            \* self.subtitle_renderer is not None
    ctl,                 \* position of each thread that calls start()/stop()
    result,              \* what the last start()/stop() of each such thread did
    \* AudioCapture
    stream,              \* self.stream is not None
    is_recording,        \* self.is_recording
    active_streams,      \* number of PortAudio streams that are started and not
                         \* stopped, whether an object still refers to them or not
    replaced_recording,  \* those of them that belong to AudioCapture objects
                         \* initialize() has replaced and whose is_recording is set
    replaced_idle,       \* those of them that belong to replaced AudioCapture
                         \* objects whose is_recording is not set
    \* SpeechToText
    recognizer,          \* self.recognizer is not None
    is_recognizing,      \* self.is_recognizing
    session_active,      \* the session of the recognizer self.recognizer refers
                         \* to is open
    orphan_sessions,     \* open sessions of recognizers this SpeechToText object
                         \* no longer refers to
    replaced_sessions,   \* open sessions of the recognizers of SpeechToText
                         \* objects initialize() has replaced
    stt_language,        \* speech_config.speech_recognition_language
    \* Translation
    target_language,     \* self.target_language
    requested_target,    \* the code given to the last set_target_language call
                         \* of the orchestrator that has returned ({}: none yet)
    \* LanguageDetection
    cached_language,     \* self.cached_language
    last_detection_time, \* self.last_detection_time
    \* SubtitleRenderer
    max_lines,           \* self.max_lines
    subtitles,           \* self.subtitles
    fade_timer,          \* self.fade_timer
    pending,             \* the callbacks root.after has scheduled and not yet run
    render_outcome,      \* the last renderer method called and how it ended
    shown_log,           \* subtitles given to show_subtitle since the last removal
    \* transcript handling
    handlers,            \* the _handle_transcription coroutines, in order of creation
                         \* (running: the value of is_running at that moment)
    inserted,            \* indices of handlers, in the order of their show_subtitle
    translate_invoked,   \* indices of handlers that called translate_text
    \* time.time(), seconds
    now,
    \* RealTimeSubtitleSystem.initialize()
    adapters,            \* the adapter attributes that are not None
    gui_threads_starting, \* number of GUI threads started by initialize() that
                         \* have not yet reached tk.Tk() of line 99
    registered_callbacks, \* the callback attributes of self.audio_capture and
                         \* self.speech_to_text that are not None
    default_language,    \* self.default_language, read by initialize()
    \* SpeechToText._recognized_callback
    unrecognized_events, \* number of final events whose reason was not
                         \* RecognizedSpeech
    \* SpeechToText._session_stopped_callback
    session_stopped_pending, \* number of sessions of this SpeechToText object
                         \* that have ended and whose session_stopped event the
                         \* SDK has not yet fired
    \* AudioCapture._audio_callback on the PortAudio threads
    in_callback,         \* per kind of stream, the number of callbacks that are
                         \* past the test of line 47 and have not yet called
                         \* the sink
    \* server.py
    token,               \* azure_token.token: {} or the time it was issued
    expires_at,          \* azure_token.expires_at
    server_call          \* what the last speech_to_text(audio_data) did

orchVars == <<is_running, current_language, renderer, ctl, result>>
audioVars == <<stream, is_recording, active_streams, replaced_recording, replaced_idle>>
sttVars == <<recognizer, is_recognizing, session_active, orphan_sessions,
             replaced_sessions, stt_language>>
transVars == <<target_language>>
callVars == <<requested_target>>
detVars == <<cached_language, last_detection_time>>
rendVars == <<max_lines, subtitles, fade_timer, pending, render_outcome, shown_log>>
handlerVars == <<handlers, inserted, translate_invoked>>

\* initialize(), the recognizer's rejected events, the PortAudio callback thread,
\* and the token cache of server.py
initVars == <<adapters, gui_threads_starting, registered_callbacks,
             default_language>>
eventVars == <<unrecognized_events, session_stopped_pending>>
callbackVars == <<in_callback>>
serverVars == <<token, expires_at, server_call>>
auxVars == <<initVars, eventVars, callbackVars, serverVars, callVars>>

vars == <<orchVars, audioVars, sttVars, transVars, detVars, rendVars,
          handlerVars, now, auxVars>>

----------------------------------------------------------------------------
(* Python helpers *)

Max(a, b) == IF a > b THEN a ELSE b

\* str.strip(): leading and trailing blanks removed
RECURSIVE LStrip(_)
LStrip(t) == IF t # <<>> /\ Head(t) = " " THEN LStrip(Tail(t)) ELSE t

RECURSIVE RStrip(_)
RStrip(t) ==
    IF t # <<>> /\ t[Len(t)] = " " THEN RStrip(SubSeq(t, 1, Len(t) - 1)) ELSE t

Strip(t) == RStrip(LStrip(t))

\* the list lst[-n:], n >= 0 (lst[-0:] is the whole list)
LastMutantNoCut(lst, n) == lst

LastMutantKeepFirst(lst, n) == SubSeq(lst, 1, n)

Last(lst, n) ==
    IF n = 0 THEN lst ELSE SubSeq(lst, Max(1, Len(lst) - n + 1), Len(lst))

----------------------------------------------------------------------------
(* SubtitleRenderer *)

\* if self.fade_timer: root.after_cancel(self.fade_timer): the callback with
\* that id, if still scheduled, is dropped
AfterCancel(timers, timer) == {t \in timers : t.id \notin timer}

\* root.after(ms, callback): a fresh id, due fade_timeout seconds from now
FreshId(timers) == CHOOSE i \in 1..(Cardinality(timers) + 1) :
                       \A t \in timers : t.id # i

\* lines 73-84 taking the oldest line off a display that is not full
Enqueue_dropping_oldest(subs, sub, n) ==
    LET appended == Append(subs, sub)
    IN  IF Len(appended) > 1 THEN Last(appended, Len(appended) - 1) ELSE appended

\* show_subtitle lines 73-84: append, then keep the latest max_lines
Enqueue(subs, sub, n) ==
    LET appended == Append(subs, sub)
    IN  IF Len(appended) > n THEN Last(appended, n) ELSE appended

\* show_subtitle with parent_window bound and lines 68-70 left out: a fade
\* timer is scheduled (lines 94-97) while the previous one stays scheduled
show_subtitle_not_cancelling(text, speaker) ==
    LET sub == [text |-> text, speaker |-> speaker, timestamp |-> now]
        id == FreshId(pending)
    IN  /\ pending' = pending \cup {[id |-> id, due |-> now + FadeTimeout]}
        /\ fade_timer' = {id}
        /\ subtitles' = Enqueue(subtitles, sub, max_lines)
        /\ shown_log' = Append(shown_log, sub)
        /\ render_outcome' = [method |-> "show_subtitle", outcome |-> "returned"]
        /\ UNCHANGED max_lines

\* show_subtitle(text, speaker).  The name parent_window (line 90) is bound
\* nowhere in the module, so the call raises NameError after the display is
\* updated and before a fade timer is scheduled (lines 94-97 never run).
show_subtitle(text, speaker) ==
    LET sub == [text |-> text, speaker |-> speaker, timestamp |-> now]
    IN  /\ pending' = AfterCancel(pending, fade_timer)
        /\ fade_timer' = {}
        /\ subtitles' = Enqueue(subtitles, sub, max_lines)
        /\ shown_log' = Append(shown_log, sub)
        /\ render_outcome' = [method |-> "show_subtitle", outcome |-> "NameError"]
        /\ UNCHANGED max_lines

\* fade_oldest_subtitle(): body run under the lock.  Its only caller is the
\* callback root.after runs (lines 94-97 and 108-111).
fade_oldest_subtitle(timers) ==
    IF subtitles # <<>>
    THEN /\ subtitles' = Tail(subtitles)
         /\ shown_log' = <<>>
         /\ IF Tail(subtitles) # <<>>
            THEN LET id == FreshId(timers)
                 IN  /\ fade_timer' = {id}
                     /\ pending' = timers \cup {[id |-> id, due |-> now + FadeTimeout]}
                     /\ render_outcome' = [method |-> "fade_oldest_subtitle",
                                           outcome |-> "returned"]
            ELSE /\ fade_timer' = {}
                 /\ pending' = timers
                 /\ render_outcome' = [method |-> "fade_oldest_subtitle",
                                       outcome |-> "NameError"]
         /\ UNCHANGED max_lines
    ELSE /\ pending' = timers
         /\ render_outcome' = [method |-> "fade_oldest_subtitle",
                               outcome |-> "returned"]
         /\ UNCHANGED <<max_lines, subtitles, fade_timer, shown_log>>

\* clear(): raises NameError at line 143, after the list is emptied and the
\* timer cancelled
clear ==
    /\ subtitles' = <<>>
    /\ shown_log' = <<>>
    /\ pending' = AfterCancel(pending, fade_timer)
    /\ fade_timer' = {}
    /\ render_outcome' = [method |-> "clear", outcome |-> "NameError"]
    /\ UNCHANGED max_lines

----------------------------------------------------------------------------
(* The renderer driven directly *)

nonRendVars == <<orchVars, audioVars, sttVars, transVars, detVars, handlerVars>>

\* a caller invokes show_subtitle(text)
ShowSubtitleCall ==
    /\ Len(shown_log) < MaxShows
    /\ \E text \in CaptionTexts : show_subtitle(text, None)
    /\ UNCHANGED <<nonRendVars, now, auxVars>>

\* the tk event loop runs a scheduled callback that is due.  No call of
\* root.after is ever reached (show_subtitle raises at line 90, and
\* fade_oldest_subtitle is entered from a callback only), so pending is empty
\* in every reachable state and this action is never enabled: the
\* next-state relations leave it out.
TimerFires ==
    /\ \E t \in pending :
          /\ now >= t.due
          /\ fade_oldest_subtitle(pending \ {t})
    /\ UNCHANGED <<nonRendVars, now, auxVars>>

\* a caller invokes clear()
ClearCall ==
    /\ clear
    /\ UNCHANGED <<nonRendVars, now, auxVars>>

\* one second passes
TickSecond ==
    /\ now < StartTime + MaxElapsed
    /\ now' = now + 1
    /\ UNCHANGED <<nonRendVars, rendVars, auxVars>>

\* initialize(), lines 56-79: the adapters in the order they are constructed
AdapterOrder == <<"audio_capture", "audio_preprocessing", "language_detection",
                  "speech_to_text", "translation">>

Adapters == {AdapterOrder[k] : k \in 1..Len(AdapterOrder)}

\* initialize(), lines 87 and 90: the callbacks it registers, audio_callback
\* of the AudioCapture object and transcription_callback of the SpeechToText
\* object; a new object has none (audio_capture.py line 22, speech_to_text.py
\* line 26)
Callbacks == {"audio_callback", "transcription_callback"}

\* the kinds of stream whose callback PortAudio calls: the stream self.stream
\* refers to, the streams of this object that were left capturing, and the
\* streams of replaced objects, whose callbacks are bound to those objects
\* and read their is_recording
StreamKinds == {"current", "orphan", "replaced", "replaced_idle"}

\* no callback is under way
NoCallbacks == [k \in StreamKinds |-> 0]

\* server.py: no speech_to_text call has been made
NoCall == [outcome |-> None, sent_with |-> {}, checked_at |-> 0, valid_until |-> 0,
           refresh |-> None]

\* __init__ with config {'default_language': language}; callers are the
\* threads that call initialize(), start() and stop() on the object
Constructed(language, callers) ==
    /\ is_running = FALSE
    /\ default_language = language
    /\ current_language = language
    /\ ctl = [c \in callers |-> "idle"]
    /\ result = [c \in callers |-> [op |-> None, value |-> None]]
    /\ stream = FALSE
    /\ is_recording = FALSE
    /\ active_streams = 0
    /\ replaced_recording = 0
    /\ replaced_idle = 0
    /\ recognizer = FALSE
    /\ is_recognizing = FALSE
    /\ session_active = FALSE
    /\ orphan_sessions = 0
    /\ replaced_sessions = 0
    /\ stt_language = language
    /\ target_language = "en"
    /\ requested_target = {}
    /\ cached_language = {}
    /\ last_detection_time = 0
    /\ handlers = <<>>
    /\ inserted = <<>>
    /\ translate_invoked = {}
    /\ now = StartTime
    /\ unrecognized_events = 0
    /\ session_stopped_pending = 0
    /\ in_callback = NoCallbacks
    /\ token = {}
    /\ expires_at = 0
    /\ server_call = NoCall

\* the object driven by the GUI thread alone
ConstructedOrch(language) == Constructed(language, {"ui"})

ConstructedRenderer ==
    /\ subtitles = <<>>
    /\ fade_timer = {}
    /\ pending = {}
    /\ render_outcome = [method |-> None, outcome |-> None]
    /\ shown_log = <<>>

RendererInit ==
    /\ ConstructedOrch("en")
    /\ adapters = Adapters
    /\ registered_callbacks = Callbacks
    /\ ConstructedRenderer
    /\ renderer = TRUE
    /\ gui_threads_starting = 0
    /\ max_lines \in 1..MaxLinesBound

\* the calls made on a renderer and the passing of time.  A timer expiry
\* (TimerFires) needs a scheduled callback, and none is ever scheduled.
RendererNext ==
    \/ ShowSubtitleCall
    \/ ClearCall
    \/ TickSecond

RendererSpec == RendererInit /\ [][RendererNext]_vars

----------------------------------------------------------------------------
(* AudioCapture *)

\* initialize_microphone_capture(), lines 31-43: self.audio.open() builds a new
\* stream and self.stream refers to it; the stream it referred to before is
\* neither stopped nor closed.  PyAudio starts a stream when it is opened
\* (start=True is the default of open()), so one more stream is capturing.
\* When open() raises, nothing is assigned and no stream is added.
initialize_microphone_capture_capturing_anyway(opened, streams) == streams + 1

initialize_microphone_capture(opened, streams) ==
    IF opened THEN streams + 1 ELSE streams

\* the capturing streams of the AudioCapture objects initialize() has replaced
replaced_streams == replaced_recording + replaced_idle

\* the streams of this AudioCapture object that are capturing and that
\* self.stream does not refer to
orphan_streams ==
    active_streams - replaced_streams - (IF is_recording THEN 1 ELSE 0)

\* the number of callbacks under way
InFlight(callbacks) ==
    callbacks.current + callbacks.orphan + callbacks.replaced
        + callbacks.replaced_idle

\* a new stream takes the place of self.stream: a callback of the old one that
\* is under way goes on, on a stream the object no longer refers to
Replaced(callbacks) ==
    [callbacks EXCEPT !.orphan = @ + callbacks.current, !.current = 0]

\* a new AudioCapture object takes the place of self.audio_capture: the
\* callbacks of its streams that are under way go on, bound to the old object,
\* whose is_recording nothing changes any more
ReplacedObject(callbacks, recording) ==
    LET under_way == callbacks.current + callbacks.orphan
    IN  [callbacks EXCEPT
            !.current = 0,
            !.orphan = 0,
            !.replaced = IF recording THEN @ + under_way ELSE @,
            !.replaced_idle = IF recording THEN @ ELSE @ + under_way]

\* start_recording(): the new value of is_recording
start_recording(has_stream, recording) ==
    IF has_stream /\ ~recording THEN TRUE ELSE recording

\* stop_recording(): the new value of is_recording
stop_recording(has_stream, recording) ==
    IF has_stream /\ recording THEN FALSE ELSE recording

\* stop_recording() line 85: stop_stream() on the stream self.stream refers to,
\* which is capturing whenever is_recording is set
stop_stream(has_stream, recording, streams) ==
    IF has_stream /\ recording THEN streams - 1 ELSE streams

----------------------------------------------------------------------------
(* SpeechToText *)

\* self.language_map.get(language_code, language_code)
language_map(code) ==
    CASE code = "en" -> "en-US"
      [] code = "es" -> "es-ES"
      [] code = "fr" -> "fr-FR"
      [] code = "de" -> "de-DE"
      [] code = "ja" -> "ja-JP"
      [] code = "zh" -> "zh-CN"
      [] OTHER -> code

\* the recognition sessions that are open, whichever recognizer runs them
open_sessions ==
    (IF session_active THEN 1 ELSE 0) + orphan_sessions + replaced_sessions

\* a recognizer with n open sessions is no longer referred to (a new one is
\* assigned at line 59, None at line 121, or the SpeechToText object that
\* holds it is replaced).  Nothing in the program stops those sessions; whether
\* the SDK closes a session when its recognizer is released or lets it run on
\* is not decided by this code, so any number of them stays open.  A session
\* closed in this way reports nothing.
unreferenced(n) == 0..n

\* _recognizing_callback / _recognized_callback: the callback registered by
\* initialize() is the coroutine function _handle_transcription, and it is
\* called like a plain function: the call builds a coroutine object that is
\* never awaited or scheduled, so none of its body runs.
transcription_callback(text, is_final) ==
    /\ handlers' = Append(handlers, [text |-> text, is_final |-> is_final,
                                     running |-> is_running,
                                     pc |-> "never awaited", detection |-> {},
                                     compared |-> {}, request |-> {},
                                     translated |-> {}, response |-> {}])
    /\ UNCHANGED <<inserted, translate_invoked>>

\* for the open sessions, whether the SpeechToText object their events reach
\* has a transcription callback (lines 77 and 87).  The object
\* self.speech_to_text refers to has none from its construction until
\* initialize() reaches line 90; a replaced object that has a session was
\* started after the initialize() call that built it had registered the
\* callback, the callers of initialize() being one thread at a time.
session_callbacks ==
    (IF session_active \/ orphan_sessions > 0
     THEN {"transcription_callback" \in registered_callbacks} ELSE {})
        \cup (IF replaced_sessions > 0 THEN {TRUE} ELSE {})

\* the results a recognizer callback has delivered
delivered_results ==
    Cardinality({i \in 1..Len(handlers) : handlers[i].pc = "never awaited"})

\* the SDK reports an interim result of a session that is open, to an object
\* that has a transcription callback (line 77; without one nothing happens);
\* the sessions of recognizers that are no longer referred to report to the
\* same _handle_transcription
recognizing_callback ==
    /\ open_sessions > 0
    /\ TRUE \in session_callbacks
    /\ Len(handlers) < MaxTranscripts
    /\ delivered_results < MaxResults
    /\ \E t \in RecognizerResults :
          /\ ~t.is_final
          /\ transcription_callback(t.text, FALSE)
    /\ UNCHANGED <<orchVars, audioVars, sttVars, transVars, detVars, rendVars, now, auxVars>>

\* event.result.reason of a final result
ResultReasons == {"RecognizedSpeech", "NoMatch", "Canceled"}

\* the test of lines 86-87
recognized_guard_any_reason(reason, has_callback) == has_callback

recognized_guard(reason, has_callback) ==
    reason = "RecognizedSpeech" /\ has_callback

\* the SDK reports a final result with one of the given reasons; only reason
\* RecognizedSpeech is forwarded
recognized_event(reasons) ==
    /\ open_sessions > 0
    /\ Len(handlers) < MaxTranscripts
    /\ delivered_results < MaxResults
    /\ \E t \in RecognizerResults, reason \in reasons,
          has_callback \in session_callbacks :
          /\ t.is_final
          /\ IF reason = "RecognizedSpeech"
             THEN UNCHANGED unrecognized_events
             ELSE /\ unrecognized_events < MaxUnrecognized
                  /\ unrecognized_events' = unrecognized_events + 1
          /\ IF recognized_guard(reason, has_callback)
             THEN transcription_callback(t.text, TRUE)
             ELSE UNCHANGED handlerVars
    /\ UNCHANGED <<orchVars, audioVars, sttVars, transVars, detVars, rendVars, now,
                   initVars, session_stopped_pending, callbackVars, serverVars,
                   callVars>>

recognized_callback == recognized_event(ResultReasons)

\* the SDK reports a final result it recognized
recognized_speech_callback == recognized_event({"RecognizedSpeech"})

\* a session of this SpeechToText object has ended, when was_open: the SDK
\* will fire its session_stopped event
session_ends(was_open) ==
    session_stopped_pending' = session_stopped_pending + (IF was_open THEN 1 ELSE 0)

\* the sessions the service can cancel: the one of self.recognizer, one of a
\* recognizer this object no longer refers to, one of a replaced object
SessionKinds == {"current", "orphan", "replaced"}

\* _canceled_callback, lines 94-99: the service cancels a session; the
\* callback prints the reason and clears is_recognizing of the SpeechToText
\* object it is bound to.  It calls nothing of the orchestrator, which
\* registers no callback for it.
canceled_callback ==
    /\ \E kind \in SessionKinds :
          CASE kind = "current" ->
                 /\ session_active
                 /\ session_active' = FALSE
                 /\ is_recognizing' = FALSE
                 /\ session_ends(TRUE)
                 /\ UNCHANGED <<orphan_sessions, replaced_sessions>>
            [] kind = "orphan" ->
                 /\ orphan_sessions > 0
                 /\ orphan_sessions' = orphan_sessions - 1
                 /\ is_recognizing' = FALSE
                 /\ session_ends(TRUE)
                 /\ UNCHANGED <<session_active, replaced_sessions>>
            [] kind = "replaced" ->
                 /\ replaced_sessions > 0
                 /\ replaced_sessions' = replaced_sessions - 1
                 /\ UNCHANGED <<session_active, orphan_sessions, is_recognizing,
                                session_stopped_pending>>
    /\ UNCHANGED <<orchVars, audioVars, recognizer, stt_language, transVars,
                   detVars, rendVars, handlerVars, now, initVars,
                   unrecognized_events, callbackVars, serverVars, callVars>>

\* _session_stopped_callback, lines 101-104: the SDK reports the end of a
\* session of this object, at any time after the session has ended, one event
\* for each session; the callback clears is_recognizing, whatever it is by then
session_stopped_callback ==
    /\ session_stopped_pending > 0
    /\ session_stopped_pending' = session_stopped_pending - 1
    /\ is_recognizing' = FALSE
    /\ UNCHANGED <<orchVars, audioVars, recognizer, session_active,
                   orphan_sessions, replaced_sessions, stt_language,
                   transVars, detVars, rendVars, handlerVars, now, initVars,
                   unrecognized_events, callbackVars, serverVars, callVars>>

----------------------------------------------------------------------------
(* RealTimeSubtitleSystem: start() and stop() *)

Returned(c, op, value) ==
    /\ ctl' = [ctl EXCEPT ![c] = "idle"]
    /\ result' = [result EXCEPT ![c] = [op |-> op, value |-> value]]

\* the guard of start(), lines 116-118
start_guard_ignored(running) == FALSE

start_guard(running) == running

\* start(), lines 116-129: the guard, the microphone, start_recording().
\* Before initialize() has assigned self.audio_capture the attribute is None
\* and line 121 raises AttributeError.
start_begin(c) ==
    /\ ctl[c] = "idle"
    /\ IF start_guard(is_running)
       THEN /\ Returned(c, "start", "False")
            /\ UNCHANGED <<audioVars, in_callback>>
       ELSE IF "audio_capture" \notin adapters
       THEN /\ Returned(c, "start", "AttributeError")
            /\ UNCHANGED <<audioVars, in_callback>>
       ELSE \E mic_initialized \in BOOLEAN :
              IF ~mic_initialized
              THEN /\ Returned(c, "start", "False")
                   /\ active_streams' =
                          initialize_microphone_capture(FALSE, active_streams)
                   /\ UNCHANGED <<stream, is_recording, replaced_recording,
                                  replaced_idle, in_callback>>
              ELSE /\ active_streams < MaxStreams
                   /\ stream' = TRUE
                   /\ active_streams' =
                          initialize_microphone_capture(TRUE, active_streams)
                   /\ in_callback' = Replaced(in_callback)
                   /\ is_recording' = start_recording(TRUE, is_recording)
                   /\ ctl' = [ctl EXCEPT ![c] = "start_recognition"]
                   /\ UNCHANGED <<result, replaced_recording, replaced_idle>>
    /\ UNCHANGED <<is_running, current_language, renderer, sttVars, transVars,
                   detVars, rendVars, handlerVars, now, initVars, eventVars,
                   serverVars, callVars>>

\* stop_recognition(), lines 112-113: with a recognizer that is_recognizing
\* reports as started, recognizer.stop_continuous_recognition() is called; it
\* ends the session of that recognizer and the caller waits in it.  Otherwise
\* stop_recognition() does nothing and the caller goes on.
stop_recognition_call(c, at, waiting, next) ==
    /\ ctl[c] = at
    /\ IF recognizer /\ is_recognizing
       THEN /\ session_active' = FALSE
            /\ session_ends(session_active)
            /\ ctl' = [ctl EXCEPT ![c] = waiting]
       ELSE /\ ctl' = [ctl EXCEPT ![c] = next]
            /\ UNCHANGED <<session_active, session_stopped_pending>>
    /\ UNCHANGED <<is_running, current_language, renderer, result, recognizer,
                   is_recognizing, orphan_sessions, replaced_sessions,
                   stt_language, audioVars, transVars, detVars,
                   rendVars, handlerVars, now, initVars, unrecognized_events,
                   callbackVars, serverVars, callVars>>

\* stop_recognition(), lines 114-115: stop_continuous_recognition() has
\* returned and is_recognizing = False, whatever it is by then
stop_recognition_return(c, waiting, next) ==
    /\ ctl[c] = waiting
    /\ is_recognizing' = FALSE
    /\ ctl' = [ctl EXCEPT ![c] = next]
    /\ UNCHANGED <<is_running, current_language, renderer, result, recognizer,
                   session_active, orphan_sessions, replaced_sessions,
                   stt_language, audioVars, transVars, detVars,
                   rendVars, handlerVars, now, auxVars>>

\* stop_recording(), lines 83-85: with a stream and is_recording set,
\* is_recording = False and stream.stop_stream() is called, which stops the
\* capture of that stream and in which the caller waits; otherwise
\* stop_recording() returns False at once
stop_recording_call(c, at, waiting, next) ==
    /\ ctl[c] = at
    /\ is_recording' = stop_recording(stream, is_recording)
    /\ active_streams' = stop_stream(stream, is_recording, active_streams)
    /\ ctl' = [ctl EXCEPT ![c] = IF stream /\ is_recording THEN waiting ELSE next]
    /\ UNCHANGED <<is_running, current_language, renderer, result, stream,
                   replaced_recording, replaced_idle, sttVars,
                   transVars, detVars, rendVars, handlerVars, now, auxVars>>

\* stop_recording() line 85: stop_stream() returns when the callback of that
\* stream has returned, so a callback of self.stream that is under way calls
\* the sink while the caller waits; the callbacks of other streams are not
\* waited for
stop_stream_returns(callbacks) == callbacks.current = 0

\* stop_recording(), lines 85-88: stop_stream() has returned
stop_stream_return(c, waiting, next) ==
    /\ ctl[c] = waiting
    /\ stop_stream_returns(in_callback)
    /\ ctl' = [ctl EXCEPT ![c] = next]
    /\ UNCHANGED <<is_running, current_language, renderer, result, audioVars,
                   sttVars, transVars, detVars, rendVars, handlerVars, now, auxVars>>

\* the positions of a caller that waits in stop_stream() or in terminate()
InsideStopRecording == {"stop_stream", "cleanup stop_stream", "cleanup close"}

\* start(), line 132: start_recognition() is entered, and a session that
\* is_recognizing reports is stopped first (speech_to_text.py lines 51-52).
\* When self.speech_to_text is still None (initialize() has not yet assigned
\* it at line 68, or its constructor raised), line 132 raises AttributeError
\* and the stream that was opened goes on capturing.
start_recognition(c) ==
    IF "speech_to_text" \in adapters
    THEN stop_recognition_call(c, "start_recognition", "start stopping recognition",
                               "start_recognizer")
    ELSE /\ ctl[c] = "start_recognition"
         /\ Returned(c, "start", "AttributeError")
         /\ UNCHANGED <<is_running, current_language, renderer, audioVars, sttVars,
                        transVars, detVars, rendVars, handlerVars, now, auxVars>>

\* reached only when another caller has started a session meanwhile: a single
\* caller finds is_recognizing set only while is_running is set
start_recognition_stopped(c) ==
    stop_recognition_return(c, "start stopping recognition", "start_recognizer")

\* start_recognition(), lines 54-71: a new recognizer is built and assigned
\* to self.recognizer (line 59), its events are connected, and
\* recognizer.start_continuous_recognition() is called: the session is open
\* when the call returns, and its callbacks run from then on.  The recognizer
\* that self.recognizer referred to is not stopped: when is_recognizing did
\* not report its session (line 51), that session is still open.  The SDK may
\* raise while the recognizer is built or while it is started, and start()
\* does not catch that.
start_recognizer(c) ==
    /\ ctl[c] = "start_recognizer"
    /\ \E outcome \in {"started", "constructor raises", "start raises"} :
          CASE outcome = "started" ->
                 /\ \E kept \in unreferenced(IF session_active THEN 1 ELSE 0) :
                       /\ orphan_sessions + kept + replaced_sessions
                              + session_stopped_pending < MaxSessions
                       /\ orphan_sessions' = orphan_sessions + kept
                 /\ recognizer' = TRUE
                 /\ session_active' = TRUE
                 /\ ctl' = [ctl EXCEPT ![c] = "start_recognizing"]
                 /\ UNCHANGED result
            [] outcome = "constructor raises" ->
                 /\ Returned(c, "start", "RuntimeError")
                 /\ UNCHANGED <<recognizer, session_active, orphan_sessions>>
            [] outcome = "start raises" ->
                 /\ \E kept \in unreferenced(IF session_active THEN 1 ELSE 0) :
                       orphan_sessions' = orphan_sessions + kept
                 /\ recognizer' = TRUE
                 /\ session_active' = FALSE
                 /\ Returned(c, "start", "RuntimeError")
    /\ UNCHANGED <<is_running, current_language, renderer, is_recognizing,
                   replaced_sessions, stt_language, audioVars, transVars, detVars,
                   rendVars, handlerVars, now, auxVars>>

\* speech_to_text.py lines 72-73: is_recognizing = True, whatever the
\* callbacks of the session have set it to meanwhile
start_recognizing(c) ==
    /\ ctl[c] = "start_recognizing"
    /\ is_recognizing' = TRUE
    /\ ctl' = [ctl EXCEPT ![c] = "start_running"]
    /\ UNCHANGED <<is_running, current_language, renderer, result, recognizer,
                   session_active, orphan_sessions, replaced_sessions,
                   stt_language, audioVars, transVars, detVars,
                   rendVars, handlerVars, now, auxVars>>

\* start(), lines 134-136: is_running = True and return True
start_finish(c) ==
    /\ ctl[c] = "start_running"
    /\ is_running' = TRUE
    /\ Returned(c, "start", "True")
    /\ UNCHANGED <<current_language, renderer, sttVars, audioVars, transVars,
                   detVars, rendVars, handlerVars, now, auxVars>>

\* the guard of stop(), lines 140-142
stop_guard_ignored(running) == FALSE

stop_guard(running) == ~running

\* stop(), lines 140-147: the guard, then audio_capture.stop_recording()
stop_begin(c) ==
    IF stop_guard(is_running)
    THEN /\ ctl[c] = "idle"
         /\ Returned(c, "stop", "False")
         /\ UNCHANGED <<is_running, current_language, renderer, audioVars, sttVars,
                        transVars, detVars, rendVars, handlerVars, now, auxVars>>
    ELSE stop_recording_call(c, "idle", "stop_stream", "stop_recognition")

stop_stream_returned(c) ==
    stop_stream_return(c, "stop_stream", "stop_recognition")

\* the capturing streams of a kind, each with its own PortAudio thread
streams_of(kind) ==
    CASE kind = "current" -> IF is_recording THEN 1 ELSE 0
      [] kind = "orphan" -> orphan_streams
      [] kind = "replaced" -> replaced_recording
      [] kind = "replaced_idle" -> replaced_idle

\* the is_recording a callback of a stream of that kind reads at line 47: the
\* attribute of the AudioCapture object the callback is bound to
recording_of(kind) ==
    CASE kind = "current" -> is_recording
      [] kind = "orphan" -> is_recording
      [] kind = "replaced" -> TRUE
      [] kind = "replaced_idle" -> FALSE

\* _audio_callback, line 47: PortAudio calls the callback of a capturing
\* stream with a frame, and the callback finds is_recording set (when it is
\* not set the callback returns the frame to PortAudio and nothing happens).
\* A stream has one callback under way at a time.
audio_callback_test(s) ==
    /\ in_callback[s] < streams_of(s)
    /\ recording_of(s)
    /\ in_callback' = [in_callback EXCEPT ![s] = @ + 1]
    /\ UNCHANGED <<orchVars, audioVars, sttVars, transVars, detVars, rendVars,
                   handlerVars, now, initVars, eventVars, serverVars, callVars>>

\* _audio_callback, lines 48-52: the frame is queued and given to the sink
\* _handle_audio when the object has an audio callback (line 49); the sink
\* keeps nothing of it
audio_callback_deliver(s) ==
    /\ in_callback[s] > 0
    /\ in_callback' = [in_callback EXCEPT ![s] = @ - 1]
    /\ UNCHANGED <<orchVars, audioVars, sttVars, transVars, detVars, rendVars,
                   handlerVars, now, initVars, eventVars, serverVars, callVars>>

\* stop(), line 150: speech_to_text.stop_recognition()
stop_speech(c) ==
    stop_recognition_call(c, "stop_recognition", "stopping recognition", "stop_clear")

stop_speech_stopped(c) ==
    stop_recognition_return(c, "stopping recognition", "stop_clear")

\* stop(), lines 153-158: subtitle_renderer.clear() when there is a renderer,
\* then is_running = False.  clear() raises NameError, which stop() does not
\* catch: line 156 is then not reached.
stop_finish(c) ==
    /\ ctl[c] = "stop_clear"
    /\ IF renderer
       THEN /\ clear
            /\ Returned(c, "stop", "NameError")
            /\ UNCHANGED is_running
       ELSE /\ is_running' = FALSE
            /\ Returned(c, "stop", "True")
            /\ UNCHANGED rendVars
    /\ UNCHANGED <<current_language, renderer, audioVars, sttVars, transVars,
                   detVars, handlerVars, now, auxVars>>

\* AudioCapture.cleanup(), lines 125-126: stream.close() and
\* audio.terminate(), which closes every stream this PyAudio object opened;
\* the streams of the PyAudio objects of replaced AudioCapture objects
\* (`others`) are not touched
terminate(streams, others) == others

\* cleanup() has ended for caller c, by returning or by raising
Closed(c, value) ==
    /\ ctl' = [ctl EXCEPT ![c] = "closed"]
    /\ result' = [result EXCEPT ![c] = [op |-> "cleanup", value |-> value]]

\* cleanup(), lines 205-206: when is_running, stop() is called, and stop()
\* begins with audio_capture.stop_recording() (lines 140-147)
cleanup_begin(c) ==
    IF is_running
    THEN stop_recording_call(c, "idle", "cleanup stop_stream",
                             "cleanup stop_recognition")
    ELSE /\ ctl[c] = "idle"
         /\ ctl' = [ctl EXCEPT ![c] = "cleanup audio_capture"]
         /\ UNCHANGED <<is_running, current_language, renderer, result, audioVars,
                        sttVars, transVars, detVars, rendVars, handlerVars, now,
                        auxVars>>

cleanup_stop_stream_returned(c) ==
    stop_stream_return(c, "cleanup stop_stream", "cleanup stop_recognition")

\* stop() inside cleanup(), line 150: speech_to_text.stop_recognition()
cleanup_stop_speech(c) ==
    stop_recognition_call(c, "cleanup stop_recognition",
                          "cleanup stopping recognition", "cleanup stop_clear")

cleanup_stop_speech_stopped(c) ==
    stop_recognition_return(c, "cleanup stopping recognition", "cleanup stop_clear")

\* stop() inside cleanup(), lines 153-158: with a renderer clear() raises
\* NameError, which neither stop() nor cleanup() catches: cleanup() ends at
\* line 206, before is_running = False and before any adapter is cleaned up;
\* without one stop() sets is_running = False and returns
cleanup_stop_finish(c) ==
    /\ ctl[c] = "cleanup stop_clear"
    /\ IF renderer
       THEN /\ clear
            /\ Closed(c, "NameError")
            /\ UNCHANGED is_running
       ELSE /\ is_running' = FALSE
            /\ ctl' = [ctl EXCEPT ![c] = "cleanup audio_capture"]
            /\ UNCHANGED <<result, rendVars>>
    /\ UNCHANGED <<current_language, renderer, audioVars, sttVars, transVars,
                   detVars, handlerVars, now, auxVars>>

\* cleanup(), line 209: audio_capture.cleanup() calls stop_recording() when
\* there is a stream (audio_capture.py lines 123-124)
cleanup_audio(c) ==
    stop_recording_call(c, "cleanup audio_capture", "cleanup close", "cleanup close")

\* audio_capture.py lines 125-126 and cleanup() lines 211-212: stop_stream()
\* has returned; stream.close() and audio.terminate() close every stream of
\* this PyAudio object and return when none of their callbacks is under way;
\* audio_preprocessing.cleanup() only ends the thread of the preprocessing
cleanup_audio_close(c) ==
    /\ ctl[c] = "cleanup close"
    /\ in_callback.current = 0
    /\ in_callback.orphan = 0
    /\ active_streams' = terminate(active_streams, replaced_streams)
    /\ ctl' = [ctl EXCEPT ![c] = "cleanup speech_to_text"]
    /\ UNCHANGED <<is_running, current_language, renderer, result, stream,
                   is_recording, replaced_recording, replaced_idle, sttVars,
                   transVars, detVars, rendVars, handlerVars, now, auxVars>>

\* cleanup(), lines 214-215: speech_to_text.cleanup() stops the recognition
\* when there is a recognizer (speech_to_text.py lines 119-120)
cleanup_speech(c) ==
    stop_recognition_call(c, "cleanup speech_to_text", "cleanup speech stopping",
                          "cleanup recognizer")

\* speech_to_text.py lines 114-115 when stop_continuous_recognition() has
\* returned (is_recognizing = False), then line 121: the recognizer is
\* forgotten, and a session of it that is_recognizing did not report is not
\* stopped
cleanup_recognizer(c) ==
    /\ ctl[c] \in {"cleanup speech stopping", "cleanup recognizer"}
    /\ is_recognizing' = (is_recognizing /\ ctl[c] # "cleanup speech stopping")
    /\ recognizer' = FALSE
    /\ \E kept \in unreferenced(IF session_active THEN 1 ELSE 0) :
          orphan_sessions' = orphan_sessions + kept
    /\ session_active' = FALSE
    /\ ctl' = [ctl EXCEPT ![c] = "cleanup subtitle_renderer"]
    /\ UNCHANGED <<is_running, current_language, renderer, result,
                   replaced_sessions, stt_language, audioVars, transVars, detVars,
                   rendVars, handlerVars, now, auxVars>>

\* cleanup(), lines 217-218: subtitle_renderer.cleanup() when there is a
\* renderer; its clear() raises NameError
cleanup_renderer(c) ==
    /\ ctl[c] = "cleanup subtitle_renderer"
    /\ IF renderer
       THEN /\ clear
            /\ Closed(c, "NameError")
       ELSE /\ Closed(c, "returned")
            /\ UNCHANGED rendVars
    /\ UNCHANGED <<is_running, current_language, renderer, audioVars, sttVars,
                   transVars, detVars, handlerVars, now, auxVars>>

\* self.default_language and self.target_language (lines 30-31) with the
\* configuration app.py builds (app.py lines 70-71: 'en' and 'en')
default_language_en == "en"

target_language_en == "en"

\* initialize() is not one step: its caller gives way to the other threads in
\* Thread.start() of AudioPreprocessing.__init__ (audio_preprocessing.py line
\* 27, reached from line 59), in speechsdk.SpeechConfig() of
\* SpeechToText.__init__ (speech_to_text.py lines 14-17, reached from line 68)
\* and in gui_thread.start() of line 84; these are the positions
\* "init_thread.start", "SpeechConfig" and "gui_thread.start" of the caller.
\*
\* initialize(), lines 51-59: AudioCapture() is constructed and assigned with
\* no try/except and no test of what the attribute holds, then
\* AudioPreprocessing() is entered, which starts a thread.  pyaudio.PyAudio()
\* in AudioCapture.__init__ can raise, and then nothing is assigned.  The new
\* object has no stream, is_recording False and no audio callback; a stream
\* the previous object had open is not stopped: its callbacks stay bound to
\* the previous object and to _handle_audio of this orchestrator.
initialize(c) ==
    /\ ctl[c] = "idle"
    /\ \E raised \in BOOLEAN :
          IF raised
          THEN /\ Returned(c, "initialize", "raised")
               /\ UNCHANGED <<adapters, registered_callbacks, audioVars, in_callback>>
          ELSE /\ adapters' = adapters \cup {"audio_capture"}
               /\ registered_callbacks' = registered_callbacks \ {"audio_callback"}
               /\ stream' = FALSE
               /\ is_recording' = FALSE
               /\ replaced_recording' = replaced_recording +
                     (IF is_recording THEN 1 + orphan_streams ELSE 0)
               /\ replaced_idle' = replaced_idle +
                     (IF is_recording THEN 0 ELSE orphan_streams)
               /\ in_callback' = ReplacedObject(in_callback, is_recording)
               /\ ctl' = [ctl EXCEPT ![c] = "init_thread.start"]
               /\ UNCHANGED <<result, active_streams>>
    /\ UNCHANGED <<is_running, current_language, renderer, sttVars, transVars,
                   detVars, rendVars, handlerVars, now, gui_threads_starting,
                   default_language, eventVars, serverVars, callVars>>

\* initialize(), lines 59-68: Thread.start() has returned, the
\* AudioPreprocessing object and a new LanguageDetection object, with nothing
\* cached, are assigned, and SpeechToText() is entered, which builds a
\* SpeechConfig
initialize_preprocessing(c) ==
    /\ ctl[c] = "init_thread.start"
    /\ adapters' = adapters \cup {"audio_preprocessing", "language_detection"}
    /\ cached_language' = {}
    /\ last_detection_time' = 0
    /\ ctl' = [ctl EXCEPT ![c] = "SpeechConfig"]
    /\ UNCHANGED <<is_running, current_language, renderer, result, audioVars,
                   sttVars, transVars, rendVars, handlerVars, now,
                   gui_threads_starting, registered_callbacks, default_language,
                   eventVars, callbackVars, serverVars, callVars>>

\* initialize(), lines 68-84: speechsdk.SpeechConfig(subscription, region)
\* raises (missing credentials) and nothing more is assigned, or the new
\* SpeechToText object is assigned, with no recognizer, is_recognizing False,
\* no transcription callback and self.default_language as its recognition
\* language, as it is given (speech_to_text.py line 18); then a new
\* Translation object is assigned, whose target_language is
\* self.target_language of the orchestrator, which set_target_language does
\* not assign, and the GUI thread is started.  A session the previous
\* SpeechToText object had open is not stopped: its events reach that object
\* alone, and _handle_transcription of this orchestrator through it.
initialize_speech(c) ==
    /\ ctl[c] = "SpeechConfig"
    /\ \E raised \in BOOLEAN :
          IF raised
          THEN /\ Returned(c, "initialize", "raised")
               /\ UNCHANGED <<adapters, registered_callbacks, sttVars,
                              session_stopped_pending, target_language,
                              gui_threads_starting>>
          ELSE /\ adapters' = adapters \cup {"speech_to_text", "translation"}
               /\ registered_callbacks' =
                     registered_callbacks \ {"transcription_callback"}
               /\ recognizer' = FALSE
               /\ is_recognizing' = FALSE
               /\ stt_language' = default_language
               /\ session_active' = FALSE
               /\ orphan_sessions' = 0
               /\ \E kept \in unreferenced((IF session_active THEN 1 ELSE 0)
                                              + orphan_sessions) :
                     replaced_sessions' = replaced_sessions + kept
               /\ session_stopped_pending' = 0
               /\ target_language' = target_language_en
               /\ gui_threads_starting < MaxGuiThreads
               /\ gui_threads_starting' = gui_threads_starting + 1
               /\ ctl' = [ctl EXCEPT ![c] = "gui_thread.start"]
               /\ UNCHANGED result
    /\ UNCHANGED <<is_running, current_language, renderer, audioVars, detVars,
                   rendVars, handlerVars, now, default_language,
                   unrecognized_events, callbackVars, serverVars, callVars>>

\* initialize(), lines 87-93: gui_thread.start() has returned, the audio
\* callback and the transcription callback are registered on the objects the
\* attributes refer to, and initialize() returns True
initialize_return(c) ==
    /\ ctl[c] = "gui_thread.start"
    /\ registered_callbacks' = Callbacks
    /\ Returned(c, "initialize", "True")
    /\ UNCHANGED <<is_running, current_language, renderer, audioVars, sttVars,
                   transVars, detVars, rendVars, handlerVars, now, adapters,
                   gui_threads_starting, default_language, eventVars,
                   callbackVars, serverVars, callVars>>

\* the GUI thread started by initialize(), lines 95-113: tk.Tk() opens a
\* window, and a new SubtitleRenderer is assigned to self.subtitle_renderer.
\* When no window can be opened tk.Tk() raises TclError, the thread ends and
\* the attribute keeps what it held.
init_subtitle_renderer ==
    /\ gui_threads_starting > 0
    /\ gui_threads_starting' = gui_threads_starting - 1
    /\ \E window_opened \in BOOLEAN :
          IF window_opened
          THEN /\ renderer' = TRUE
               /\ subtitles' = <<>>
               /\ fade_timer' = {}
               /\ pending' = {}
               /\ shown_log' = <<>>
          ELSE UNCHANGED <<renderer, subtitles, fade_timer, pending, shown_log>>
    /\ UNCHANGED <<is_running, current_language, ctl, result, audioVars, sttVars,
                   transVars, detVars, max_lines, render_outcome,
                   handlerVars, now, adapters, registered_callbacks, default_language,
                   eventVars, callbackVars, serverVars, callVars>>

\* set_target_language(language_code), lines 196-199: the code is passed on to
\* the Translation object when there is one (line 198); self.target_language
\* of the orchestrator is not assigned
set_target_language ==
    /\ \E code \in Languages :
          /\ target_language' = IF "translation" \in adapters
                                THEN code ELSE target_language
          /\ requested_target' = {code}
    /\ UNCHANGED <<orchVars, audioVars, sttVars, detVars, rendVars, handlerVars,
                   now, initVars, eventVars, callbackVars, serverVars>>

----------------------------------------------------------------------------
(* RealTimeSubtitleSystem._handle_transcription, run by a caller that awaits
   it.  The coroutine gives way to other threads while it waits for the
   language-identification service and for the translation service. *)

\* what the language-identification request can come back with: an exception,
\* a response that is not a 200 with a detectedLanguage, or a detected language
\* with its confidence in percent
DetectResponses ==
    {[kind |-> "exception", language_code |-> "en", confidence |-> 0],
     [kind |-> "malformed", language_code |-> "en", confidence |-> 0]}
    \cup [kind : {"detected"}, language_code : Languages, confidence : {50, 70, 90}]

\* what the translation request can come back with
TranslateResponses == {"exception", "malformed", "translated"}

\* the text the translation service returns for a text and a target language
ServiceTranslation(text, to) == <<"[", to, "]">> \o text

\* self.cached_language or {"language_code": "en", "confidence": 1.0}
hard_coded_default(cache) == [language_code |-> "en", confidence |-> 100]

cached_or_default(cache) ==
    IF cache # {} THEN CHOOSE d \in cache : TRUE
    ELSE [language_code |-> "en", confidence |-> 100]

\* detect_language line 20: the cases answered without a request
detect_skips_no_cooldown(text) ==
    \/ text = <<>>
    \/ Len(Strip(text)) < StripMinLen

detect_skips(text) ==
    \/ text = <<>>
    \/ Len(Strip(text)) < StripMinLen
    \/ (now - last_detection_time < CacheExpiry /\ cached_language # {})

\* detect_language lines 47-55: a response with a detected language whose
\* confidence is above the threshold is accepted
detect_accepts(resp) ==
    resp.kind = "detected" /\ resp.confidence > ConfidenceThreshold

\* detect_language lines 47-68: the value returned for a response and the
\* new <<cached_language, last_detection_time>>
detect_result(resp) ==
    IF detect_accepts(resp)
    THEN LET d == [language_code |-> resp.language_code,
                   confidence |-> resp.confidence]
         IN  <<d, {d}, now>>
    ELSE <<cached_or_default(cached_language), cached_language, last_detection_time>>

\* lines 193-194: show the subtitle when there is a renderer; show_subtitle
\* raises NameError, which ends the coroutine
finish(hs, i, translated) ==
    IF renderer
    THEN /\ show_subtitle(translated, None)
         /\ inserted' = Append(inserted, i)
         /\ handlers' = [hs EXCEPT ![i].pc = "NameError",
                                   ![i].translated = {translated}]
    ELSE /\ handlers' = [hs EXCEPT ![i].pc = "returned",
                                   ![i].translated = {translated}]
         /\ UNCHANGED <<rendVars, inserted>>

\* line 190 and translate_text lines 22-27: the blank test, then the comparison
\* of the source language with self.target_language as read at line 26; a call
\* that goes on to the request keeps the two values compared until the request
\* is built
translate_text(hs, i, source_language) ==
    LET text == hs[i].text
        seen == [hs EXCEPT ![i].compared = {[source |-> source_language,
                                             target |-> target_language]}]
    IN  /\ translate_invoked' = translate_invoked \cup {i}
        /\ IF text = <<>> \/ Strip(text) = <<>>
           THEN finish(hs, i, <<>>)
           ELSE IF source_language = target_language
           THEN finish(hs, i, text)
           ELSE /\ handlers' = [seen EXCEPT ![i].pc = "building request"]
                /\ UNCHANGED <<rendVars, inserted>>

\* lines 184-190: follow the detected language, then translate.  When the
\* detected language differs, current_language is set (line 185) and
\* set_language() is entered: with a recognizer that is_recognizing reports
\* as started it calls recognizer.stop_continuous_recognition()
\* (speech_to_text.py line 113), which ends the session and in which the
\* thread waits; otherwise it goes on to line 44.
language_switch(hs, i, detected) ==
    IF detected.language_code # current_language
    THEN /\ current_language' = detected.language_code
         /\ IF recognizer /\ is_recognizing
            THEN /\ session_active' = FALSE
                 /\ session_ends(session_active)
                 /\ handlers' = [hs EXCEPT ![i].pc = "stopping recognition"]
            ELSE /\ handlers' = [hs EXCEPT ![i].pc = "setting language"]
                 /\ UNCHANGED <<session_active, session_stopped_pending>>
         /\ UNCHANGED <<recognizer, is_recognizing, orphan_sessions,
                        replaced_sessions, stt_language, rendVars,
                        inserted, translate_invoked>>
    ELSE /\ translate_text(hs, i, current_language)
         /\ UNCHANGED <<current_language, sttVars, session_stopped_pending>>

\* the rest of set_language(language_code) and line 190:
\* stop_continuous_recognition() has returned and is_recognizing = False
\* (speech_to_text.py line 114), the language of the configuration is set to
\* the language this handler detected (lines 44-45), and translate_text is
\* called with self.current_language as it is now
set_language_return ==
    /\ \E i \in 1..Len(handlers) :
          /\ handlers[i].pc \in {"stopping recognition", "setting language"}
          /\ is_recognizing' = IF handlers[i].pc = "stopping recognition"
                               THEN FALSE ELSE is_recognizing
          /\ stt_language' =
                language_map((CHOOSE d \in handlers[i].detection : TRUE)
                                 .returned.language_code)
          /\ translate_text(handlers, i, current_language)
    /\ UNCHANGED <<orchVars, recognizer, session_active, orphan_sessions,
                   replaced_sessions, audioVars, transVars, detVars, now, auxVars>>

\* the guard of line 174
handle_guard_text_only(running, text) == text = <<>>

handle_guard(running, text) == ~running \/ text = <<>>

\* the guard of line 181
detect_guard_any_length(text, is_final) == is_final

detect_guard(text, is_final) == is_final /\ Len(text) > DetectMinLen

\* _handle_transcription is entered: lines 174-190 up to the first request
handle_begin ==
    /\ Len(handlers) < MaxTranscripts
    /\ \E t \in Transcriptions :
          LET text == t.text
              is_final == t.is_final
              i == Len(handlers) + 1
              hs == Append(handlers, [text |-> text, is_final |-> is_final,
                                      running |-> is_running,
                                      pc |-> "entered", detection |-> {},
                                      compared |-> {}, request |-> {},
                                      translated |-> {}, response |-> {}])
          IN  IF handle_guard(is_running, text)
              THEN /\ handlers' = [hs EXCEPT ![i].pc = "ignored"]
                   /\ UNCHANGED <<current_language, sttVars, detVars, rendVars,
                                  inserted, translate_invoked,
                                  session_stopped_pending>>
              ELSE IF detect_guard(text, is_final)
              THEN IF detect_skips(text)
                   THEN LET d == cached_or_default(cached_language)
                        IN  /\ language_switch(
                                   [hs EXCEPT ![i].detection =
                                        {[called |-> FALSE, accepted |-> FALSE,
                                          returned |-> d]}], i, d)
                            /\ UNCHANGED detVars
                   ELSE /\ handlers' = [hs EXCEPT ![i].pc = "detecting"]
                        /\ UNCHANGED <<current_language, sttVars, detVars, rendVars,
                                       inserted, translate_invoked,
                                       session_stopped_pending>>
              ELSE /\ translate_text(hs, i, current_language)
                   /\ UNCHANGED <<current_language, sttVars, detVars,
                                  session_stopped_pending>>
    /\ UNCHANGED <<is_running, renderer, ctl, result, audioVars, transVars, now,
                   initVars, unrecognized_events, callbackVars, serverVars,
                   callVars>>

\* the language-identification request comes back: detect_language lines
\* 45-68, then lines 184-190
detect_response ==
    /\ \E i \in 1..Len(handlers), resp \in DetectResponses :
          /\ handlers[i].pc = "detecting"
          /\ LET r == detect_result(resp)
             IN  /\ cached_language' = r[2]
                 /\ last_detection_time' = r[3]
                 /\ language_switch(
                        [handlers EXCEPT ![i].detection =
                             {[called |-> TRUE, accepted |-> detect_accepts(resp),
                               returned |-> r[1]]}], i, r[1])
    /\ UNCHANGED <<is_running, renderer, ctl, result, audioVars, transVars, now,
                   initVars, unrecognized_events, callbackVars, serverVars,
                   callVars>>

\* translate_text lines 29-53: the request is built, with self.target_language
\* read again at line 45, and sent
translate_request ==
    /\ \E i \in 1..Len(handlers) :
          /\ handlers[i].pc = "building request"
          /\ LET source == (CHOOSE q \in handlers[i].compared : TRUE).source
             IN  handlers' = [handlers EXCEPT
                                 ![i].pc = "translating",
                                 ![i].compared = {},
                                 ![i].request = {[from |-> source,
                                                  to |-> target_language]}]
    /\ UNCHANGED <<orchVars, audioVars, sttVars, transVars, detVars, rendVars,
                   inserted, translate_invoked, now, auxVars>>

\* translate_text lines 55-71: the translated text for what the request came
\* back with
translate_outcome_empty_on_failure(text, to, resp) ==
    IF resp = "translated" THEN ServiceTranslation(text, to) ELSE <<>>

translate_outcome(text, to, resp) ==
    IF resp = "translated" THEN ServiceTranslation(text, to) ELSE text

\* whether the request came back with a translation (line 57) or failed
translate_status(resp) == IF resp = "translated" THEN "translated" ELSE "failed"

\* the translation request comes back: translate_text lines 55-71, then
\* lines 193-194
translate_response ==
    /\ \E i \in 1..Len(handlers), resp \in TranslateResponses :
          /\ handlers[i].pc = "translating"
          /\ LET to == (CHOOSE q \in handlers[i].request : TRUE).to
             IN  finish([handlers EXCEPT ![i].response = {translate_status(resp)}], i,
                        translate_outcome(handlers[i].text, to, resp))
    /\ UNCHANGED <<orchVars, audioVars, sttVars, transVars, detVars,
                   translate_invoked, now, auxVars>>

\* a minute passes
TickMinute ==
    /\ now < StartTime + MaxMinutes * 60
    /\ now' = now + 60
    /\ UNCHANGED <<orchVars, audioVars, sttVars, transVars, detVars, rendVars,
                   handlerVars, auxVars>>

----------------------------------------------------------------------------
(* The pipeline after initialize() *)

\* config {'default_language': 'en', 'target_language': 'en'}, as app.py
\* builds it; initialize() has returned and the GUI thread it started has not
\* yet opened its window
Init ==
    /\ ConstructedOrch("en")
    /\ adapters = Adapters
    /\ registered_callbacks = Callbacks
    /\ ConstructedRenderer
    /\ renderer = FALSE
    /\ gui_threads_starting = 1
    /\ max_lines = OrchestratorMaxLines

\* any default_language in the config
ConfiguredInit ==
    /\ \E language \in Languages : ConstructedOrch(language)
    /\ adapters = Adapters
    /\ registered_callbacks = Callbacks
    /\ ConstructedRenderer
    /\ renderer = FALSE
    /\ gui_threads_starting = 1
    /\ max_lines = OrchestratorMaxLines

\* the object after __init__, with any default_language in the config: no
\* adapter is constructed yet and no GUI thread is started
UninitializedInit ==
    /\ \E language \in Languages : ConstructedOrch(language)
    /\ adapters = {}
    /\ registered_callbacks = {}
    /\ ConstructedRenderer
    /\ renderer = FALSE
    /\ gui_threads_starting = 0
    /\ max_lines = OrchestratorMaxLines

\* the initialized orchestrator: start() and stop() calls, the GUI thread
\* creating the renderer, the recognizer's events, and transcripts being
\* handled.  The target language stays the configured one: the calls of
\* set_target_language() are those of TargetLanguageSpec.
Next ==
    \/ \E c \in DOMAIN ctl : start_begin(c)
    \/ \E c \in DOMAIN ctl : start_recognition(c)
    \/ \E c \in DOMAIN ctl : start_recognizer(c)
    \/ \E c \in DOMAIN ctl : start_recognizing(c)
    \/ \E c \in DOMAIN ctl : start_finish(c)
    \/ \E c \in DOMAIN ctl : stop_begin(c)
    \/ \E c \in DOMAIN ctl : stop_stream_returned(c)
    \/ \E c \in DOMAIN ctl : stop_speech(c)
    \/ \E c \in DOMAIN ctl : stop_speech_stopped(c)
    \/ \E c \in DOMAIN ctl : stop_finish(c)
    \/ init_subtitle_renderer
    \/ recognizing_callback
    \/ recognized_speech_callback
    \/ canceled_callback
    \/ session_stopped_callback
    \/ handle_begin
    \/ detect_response
    \/ set_language_return
    \/ translate_request
    \/ translate_response

Spec == Init /\ [][Next]_vars

\* start() and stop() with the recognizer delivering results, no coroutine
\* being awaited
LifecycleNext ==
    \/ \E c \in DOMAIN ctl : start_begin(c)
    \/ \E c \in DOMAIN ctl : start_recognition(c)
    \/ \E c \in DOMAIN ctl : start_recognizer(c)
    \/ \E c \in DOMAIN ctl : start_recognizing(c)
    \/ \E c \in DOMAIN ctl : start_finish(c)
    \/ \E c \in DOMAIN ctl : stop_begin(c)
    \/ \E c \in DOMAIN ctl : stop_stream_returned(c)
    \/ \E c \in DOMAIN ctl : stop_speech(c)
    \/ \E c \in DOMAIN ctl : stop_speech_stopped(c)
    \/ \E c \in DOMAIN ctl : stop_finish(c)
    \/ init_subtitle_renderer
    \/ recognizing_callback
    \/ recognized_callback
    \/ canceled_callback
    \/ session_stopped_callback

LifecycleSpec == Init /\ [][LifecycleNext]_vars

\* the pipeline is started with any default language and transcripts are
\* handled by awaited coroutines while time passes and the GUI thread opens
\* its window; stop() and set_target_language() are not called
DetectionNext ==
    \/ \E c \in DOMAIN ctl : start_begin(c)
    \/ \E c \in DOMAIN ctl : start_recognition(c)
    \/ \E c \in DOMAIN ctl : start_recognizer(c)
    \/ \E c \in DOMAIN ctl : start_recognizing(c)
    \/ \E c \in DOMAIN ctl : start_finish(c)
    \/ init_subtitle_renderer
    \/ session_stopped_callback
    \/ handle_begin
    \/ detect_response
    \/ set_language_return
    \/ translate_request
    \/ translate_response
    \/ TickMinute

DetectionSpec == ConfiguredInit /\ [][DetectionNext]_vars

\* app.py lines 63-77: the window builds the orchestrator and starts one
\* thread that calls initialize(); the UI thread calls start() and
\* set_target_language() from then on
ApplicationInit ==
    /\ Constructed(default_language_en, {"ui", "init"})
    /\ adapters = {}
    /\ registered_callbacks = {}
    /\ ConstructedRenderer
    /\ renderer = FALSE
    /\ gui_threads_starting = 0
    /\ max_lines = OrchestratorMaxLines

\* app.py initialize_system, lines 82-85, run once by the thread of line 75
initialize_system ==
    /\ result["init"].op = None
    /\ initialize("init")

\* the application window: initialize() is called on the new object, the
\* pipeline is started, and transcripts are handled by awaited coroutines
\* while the target language is set from the UI thread, which can be done
\* from the moment the window exists; stop() is not called, and all of it
\* happens within one minute
TargetLanguageNext ==
    \/ initialize_system
    \/ initialize_preprocessing("init")
    \/ initialize_speech("init")
    \/ initialize_return("init")
    \/ start_begin("ui")
    \/ \E c \in DOMAIN ctl : start_recognition(c)
    \/ \E c \in DOMAIN ctl : start_recognizer(c)
    \/ \E c \in DOMAIN ctl : start_recognizing(c)
    \/ \E c \in DOMAIN ctl : start_finish(c)
    \/ init_subtitle_renderer
    \/ session_stopped_callback
    \/ set_target_language
    \/ handle_begin
    \/ detect_response
    \/ set_language_return
    \/ translate_request
    \/ translate_response

TargetLanguageSpec == ApplicationInit /\ [][TargetLanguageNext]_vars

\* the same pipeline with the steps the program takes on its own scheduled
\* fairly: a thread that has reached the recognizer start or the building of
\* a request goes on.  requests.post is called without a timeout (translation.py
\* lines 48-53, language_detection.py likewise), so nothing in the program
\* makes a response step happen: those steps wait for the service.
TargetLanguageFairSpec ==
    /\ ApplicationInit
    /\ [][TargetLanguageNext]_vars
    /\ WF_vars(initialize_preprocessing("init"))
    /\ WF_vars(initialize_speech("init"))
    /\ WF_vars(initialize_return("init"))
    /\ WF_vars(\E c \in DOMAIN ctl : start_recognition(c))
    /\ WF_vars(\E c \in DOMAIN ctl : start_recognizer(c))
    /\ WF_vars(\E c \in DOMAIN ctl : start_recognizing(c))
    /\ WF_vars(\E c \in DOMAIN ctl : start_finish(c))
    /\ WF_vars(init_subtitle_renderer)
    /\ WF_vars(set_language_return)
    /\ WF_vars(translate_request)

----------------------------------------------------------------------------
(* Claims about the renderer, checked under RendererSpec *)

\* C8: for every max_lines N >= 1 and every sequence of show_subtitle, eviction
\* and clear operations, the renderer holds at most N caption lines.
C8_AtMostMaxLines == Len(subtitles) <= max_lines

\* an insertion beyond capacity has happened and the list is full
C8_Witness == Len(shown_log) > max_lines /\ Len(subtitles) = max_lines

\* C9: after k > N consecutive show_subtitle calls with no eviction or clear in
\* between, the list holds exactly the N most recently inserted captions, in
\* insertion order.
C9_KeepsLatestInOrder ==
    Len(shown_log) > max_lines =>
        /\ Len(subtitles) = max_lines
        /\ \A i \in 1..max_lines :
              subtitles[i] = shown_log[Len(shown_log) - max_lines + i]

\* N + 1 calls were made with N = 2, the first caption is gone
C9_Witness ==
    /\ max_lines = 2
    /\ Len(shown_log) = 3
    /\ subtitles = <<shown_log[2], shown_log[3]>>
    /\ shown_log[1].text # shown_log[2].text

\* C10: in every reachable state at most one eviction timer is pending, under
\* any interleaving of show_subtitle calls, timer expiries and clear.
C10_AtMostOnePendingTimer == Cardinality(pending) <= 1

\* show_subtitle has been called twice in a row on a renderer that shows the
\* two lines, and no timer is pending: each call ended at line 90, before
\* root.after
C10_Witness ==
    /\ Len(shown_log) >= 2
    /\ Len(subtitles) = 2
    /\ render_outcome = [method |-> "show_subtitle", outcome |-> "NameError"]
    /\ pending = {}
    /\ fade_timer = {}

\* C11: a caption line with no insertion after it is removed by a timer
\* eviction no later than fade_timeout after its own insertion.  For that,
\* while lines are visible an eviction must be scheduled that is due no later
\* than the newest line's insertion time + fade_timeout (after an eviction
\* that leaves lines behind: due at the new oldest line's own deadline).
C11_EvictionPendingByDeadline ==
    subtitles # <<>> =>
        \E t \in pending :
            /\ t.id \in fade_timer
            /\ t.due <= subtitles[Len(subtitles)].timestamp + FadeTimeout

\* C12: no caption line is removed by a timer eviction earlier than
\* fade_timeout after its own insertion, under any interleaving of
\* show_subtitle calls and timer expiries; removal by capacity overflow or by
\* clear() is excluded.  Stated for every removal: a step that takes a line
\* off the display is a show_subtitle call on a full display, a clear() call,
\* or takes the oldest line off no earlier than fade_timeout after that line
\* was inserted.
C12_NoEarlyTimerEviction ==
    [][\/ /\ Len(subtitles') >= Len(subtitles)
           /\ SubSeq(subtitles', 1, Len(subtitles)) = subtitles
       \/ /\ render_outcome'.method = "show_subtitle"
           /\ Len(subtitles) = max_lines
           /\ Len(subtitles') = max_lines
           /\ SubSeq(subtitles', 1, max_lines - 1) = Tail(subtitles)
       \/ /\ render_outcome'.method = "clear"
           /\ subtitles' = <<>>
       \/ /\ subtitles # <<>>
           /\ subtitles' = Tail(subtitles)
           /\ now >= subtitles[1].timestamp + FadeTimeout]_vars

\* two lines inserted at different times are on display, time has passed
\* since the later insertion, the older line is younger than fade_timeout,
\* and nothing is scheduled that could take it off
C12_Witness ==
    /\ Len(subtitles) = 2
    /\ subtitles[1].timestamp < subtitles[2].timestamp
    /\ subtitles[2].timestamp < now
    /\ now < subtitles[1].timestamp + FadeTimeout
    /\ pending = {}

\* C13: with max_lines = 2 and fade_timeout = 5, "A" inserted at t = 0, "B" at
\* t = 1 and "C" at t = 2 give the visible list ["B", "C"], then ["C"] at t = 6
\* and [] at t = 7: after the three insertions the list is ["B", "C"] and the
\* eviction of "B" is scheduled for t = 6.
C13_ExampleEvictionSchedule ==
    (/\ max_lines = 2
     /\ Len(shown_log) = 3
     /\ \A i \in 1..3 : shown_log[i].timestamp = StartTime + i - 1
     /\ <<shown_log[1].text, shown_log[2].text, shown_log[3].text>>
           = << <<"A">>, <<"B">>, <<"C">> >>)
    => /\ subtitles = <<shown_log[2], shown_log[3]>>
       /\ \E t \in pending : t.id \in fade_timer /\ t.due = StartTime + 6

----------------------------------------------------------------------------
(* Claims about the pipeline, checked under Spec (C1 under LifecycleSpec) *)

Idle == \A c \in DOMAIN ctl : ctl[c] = "idle"

\* C1: start() called while is_running is true returns False and changes
\* nothing: the state stays running and neither the audio capture nor the
\* recognizer is started or restarted.
C1_StartWhileRunningIsNoOp ==
    [][\A c \in DOMAIN ctl :
          (is_running /\ ctl[c] = "idle") =>
              /\ ctl'[c] # "start_recognition"
              /\ (result'[c] # result[c] /\ result'[c].op = "start") =>
                    /\ result'[c].value = "False"
                    /\ UNCHANGED <<is_running, current_language, renderer, ctl,
                                   audioVars, sttVars, transVars, detVars, rendVars,
                                   handlerVars, now>>]_vars

\* a start() made while running has returned False
C1_Witness ==
    /\ is_running
    /\ session_active
    /\ is_recording
    /\ \E c \in DOMAIN ctl :
          ctl[c] = "idle" /\ result[c] = [op |-> "start", value |-> "False"]

\* C2: the captions of final transcripts are inserted into the renderer in the
\* order in which the transcripts arrived, also when their handling overlaps.
C2_CaptionsInArrivalOrder ==
    \A a, b \in 1..Len(inserted) :
        (a < b /\ handlers[inserted[a]].is_final /\ handlers[inserted[b]].is_final)
            => inserted[a] < inserted[b]

\* C3: once stop() has run to its end no caption is inserted: the caption list
\* is empty until the next successful start().
C3_NoCaptionAfterStop ==
    \A c \in DOMAIN ctl :
        (ctl[c] = "idle" /\ result[c].op = "stop" /\ result[c].value # "False")
            => subtitles = <<>>

\* C4: stop() stops the recognizer first and the audio capture after it: at no
\* point of stop() is the audio capture stopped while the recognition session
\* is still active.
C4_RecognizerStoppedBeforeAudio ==
    \A c \in DOMAIN ctl :
        ctl[c] \in {"stop_stream", "stop_recognition", "stopping recognition",
                    "stop_clear"}
            => ~(~is_recording /\ session_active)

\* C5: a transcription result with is_final = False never causes a call of the
\* translator or a caption insertion.
C5_InterimNeverTranslatedOrShown ==
    \A i \in 1..Len(handlers) :
        ~handlers[i].is_final =>
            /\ i \notin translate_invoked
            /\ \A k \in 1..Len(inserted) : inserted[k] # i

\* C6: every final transcript with non-empty text delivered while running,
\* with no stop() after it, ends in exactly one caption insertion that carries
\* the translator's result: no such transcript is done without it.
C6_FinalTranscriptCaptioned ==
    \A i \in 1..Len(handlers) :
        LET h == handlers[i]
        IN  (/\ h.is_final /\ Strip(h.text) # <<>> /\ h.running /\ renderer
             /\ h.pc \in {"never awaited", "ignored", "returned", "NameError"}
             /\ \A c \in DOMAIN ctl : ctl[c] = "idle" /\ result[c].op # "stop")
            => /\ Cardinality({k \in 1..Len(inserted) : inserted[k] = i}) = 1
               /\ h.translated # {}

\* C7: when the handling of a final transcript changes the language hypothesis
\* while the pipeline runs with an active recognition session, the session is
\* restarted in the new language: a session is active afterwards, the pipeline
\* is still running and the audio capture is untouched.
C7_LanguageChangeRestartsSession ==
    [][(current_language' # current_language /\ is_running /\ session_active /\ Idle)
          => /\ session_active'
             /\ is_running'
             /\ stt_language' = language_map(current_language')
             /\ UNCHANGED audioVars]_vars

----------------------------------------------------------------------------
(* Claims about language detection, checked under DetectionSpec, and about
   translation, checked under TargetLanguageSpec *)

\* C14: the language hypothesis (current_language) changes only while a final
\* transcript longer than the minimum detection length is handled and the
\* language-identification service was called and gave a result with
\* confidence above the threshold; in every other case it stays as it was,
\* also when it is still the configured default language.
C14_HypothesisChangesOnlyOnAcceptedDetection ==
    [][current_language' # current_language =>
          \E i \in 1..Len(handlers') :
              /\ handlers'[i].is_final
              /\ Len(handlers'[i].text) > DetectMinLen
              /\ (IF i > Len(handlers) THEN TRUE ELSE handlers[i].detection = {})
              /\ \E d \in handlers'[i].detection :
                    /\ d.called
                    /\ d.accepted
                    /\ d.returned.language_code = current_language']_vars

\* C15: a final transcript whose text is shorter than the minimum detection
\* length (9 characters with threshold 10) causes no call of the
\* language-identification service, and its handling leaves the language
\* hypothesis unchanged.
C15_ShortFinalTextNoDetection ==
    [][\A i \in 1..Len(handlers') :
          (handlers'[i].is_final /\ Len(handlers'[i].text) < StripMinLen) =>
              /\ handlers'[i].pc # "detecting"
              /\ handlers'[i].detection = {}
              /\ (IF i > Len(handlers) THEN TRUE ELSE handlers'[i] # handlers[i])
                    => current_language' = current_language]_vars

\* a final transcript of 9 characters was handled while running, up to the
\* call of the translator, with a default language other than "en"
C15_Witness ==
    \E i \in 1..Len(handlers) :
        /\ handlers[i].is_final
        /\ Len(handlers[i].text) = StripMinLen - 1
        /\ handlers[i].running
        /\ i \in translate_invoked
        /\ current_language = "es"
        /\ cached_language = {}

\* C16: when the language-identification call fails or its confidence does not
\* exceed the threshold, detect_language leaves cached_language and
\* last_detection_time unchanged, and when a hypothesis is cached it returns
\* that hypothesis, never the hard-coded default.
C16_RejectedDetectionKeepsCache ==
    [][\A i \in 1..Len(handlers) :
          (handlers[i].pc = "detecting" /\ handlers'[i].pc # "detecting") =>
              \A d \in handlers'[i].detection :
                  ~d.accepted =>
                      /\ cached_language' = cached_language
                      /\ last_detection_time' = last_detection_time
                      /\ \A c \in cached_language : d.returned = c]_vars

\* a call made after the cooldown was rejected and returned the cached "es"
C16_Witness ==
    \E i \in 1..Len(handlers) :
        \E d \in handlers[i].detection :
            /\ d.called
            /\ ~d.accepted
            /\ d.returned \in cached_language
            /\ d.returned.language_code = "es"
            /\ last_detection_time < now

\* C17: when the last successful detection is less than cache_expiry (60 s)
\* old, detect_language makes no request and returns the cached hypothesis;
\* last_detection_time is set by an accepted detection only, so a failed or
\* low-confidence detection neither starts nor extends the cooldown.
C17_CooldownSkipsDetection ==
    [][/\ \A i \in 1..Len(handlers') :
             (/\ i > Len(handlers)
              /\ is_running
              /\ handlers'[i].is_final
              /\ Len(handlers'[i].text) > DetectMinLen
              /\ cached_language # {}
              /\ now - last_detection_time < CacheExpiry)
             => /\ handlers'[i].pc # "detecting"
                /\ \E c \in cached_language :
                      handlers'[i].detection =
                          {[called |-> FALSE, accepted |-> FALSE, returned |-> c]}
       /\ last_detection_time' # last_detection_time =>
             /\ last_detection_time' = now
             /\ \E i \in 1..Len(handlers) :
                   /\ handlers[i].pc = "detecting"
                   /\ \E d \in handlers'[i].detection : d.called /\ d.accepted]_vars

\* a detection within the cooldown was answered from the cache, which holds "es"
C17_Witness ==
    \E i \in 1..Len(handlers) :
        \E d \in handlers[i].detection :
            /\ ~d.called
            /\ d.returned \in cached_language
            /\ d.returned.language_code = "es"
            /\ now - last_detection_time < CacheExpiry

\* C18: translate_text(text, source_language) with source_language equal to
\* the target language makes no request and returns text unchanged as the
\* translated text, for every non-empty text.
C18_SameLanguagePassThrough ==
    [][\A i \in translate_invoked' \ translate_invoked :
          (handlers'[i].text # <<>> /\ current_language' = target_language) =>
              /\ handlers'[i].pc \notin {"building request", "translating"}
              /\ handlers'[i].request = {}
              /\ handlers'[i].translated = {handlers'[i].text}]_vars

\* C19: one call of translate_text uses one value of the target language: the
\* target compared with the source language (line 26) and the target sent in
\* the request (line 45) are the same, also when set_target_language runs
\* during the call.
C19_OneTargetPerTranslateCall ==
    [][\A i \in 1..Len(handlers) :
          (handlers[i].pc = "building request" /\ handlers'[i].pc = "translating") =>
              \A c \in handlers[i].compared, q \in handlers'[i].request :
                  q.to = c.target]_vars

\* C20: set_target_language(code) changes the target-language configuration
\* only: run state, language hypothesis, captions, audio capture and
\* recognizer stay as they are; and every translate_text call that begins
\* after the call has returned uses code as its target language: the target
\* it reads at line 26 (a call with a blank text returns before it reads one)
\* is code.
C20_SetTargetLanguageTakesEffect ==
    [][/\ requested_target' # requested_target =>
             UNCHANGED <<orchVars, audioVars, sttVars, detVars, rendVars,
                         handlerVars, now>>
       /\ \A i \in translate_invoked' \ translate_invoked :
             Strip(handlers'[i].text) # <<>> =>
                 \A code \in requested_target :
                     /\ target_language = code
                     /\ \A c \in handlers'[i].compared : c.target = code]_vars

\* initialize() is called on the new object, any number of times, and start()
\* and stop() before and after it
InitializeNext ==
    \/ \E c \in DOMAIN ctl : initialize(c)
    \/ \E c \in DOMAIN ctl : initialize_preprocessing(c)
    \/ \E c \in DOMAIN ctl : initialize_speech(c)
    \/ \E c \in DOMAIN ctl : initialize_return(c)
    \/ LifecycleNext

InitializeSpec == UninitializedInit /\ [][InitializeNext]_vars

----------------------------------------------------------------------------
(* server.py: the cached Azure token and speech_to_text *)

\* the token is valid for 9 minutes, in seconds
TokenLifetime == 540

\* 0.5 seconds of 16 kHz 16-bit audio, in bytes
RequiredBytes == 16000

\* the lengths of the audio data given to speech_to_text
AudioLengths == {RequiredBytes - 1, RequiredBytes}

\* the clock of the server advances by half the lifetime of a token
HalfLifetime == TokenLifetime \div 2

MaxHalfLifetimes == 3

\* validate_audio_format(audio_data): raises ValueError when it is false
validate_audio_format(length) == length >= RequiredBytes

\* line 103: time.time() >= azure_token.expires_at or not azure_token.token
token_stale_after_expiry(t, expiry, cached) == t > expiry \/ cached = {}

token_stale(t, expiry, cached) == t >= expiry \/ cached = {}

\* AzureToken.refresh(): the new token (known by the time it was issued at)
\* and its expiry when the token service answers, the old ones when the
\* request fails
refresh(answered) ==
    IF answered THEN <<{now}, now + TokenLifetime>>
    ELSE <<token, expires_at>>

\* speech_to_text(audio_data), lines 100-121.  The coroutine has no point of
\* suspension between the test of line 103 and the request of line 114
\* (refresh() awaits nothing), so it is one step.
speech_to_text ==
    /\ \E length \in AudioLengths, answered \in BOOLEAN :
          IF ~validate_audio_format(length)
          THEN /\ server_call' = [outcome |-> "ValueError", sent_with |-> {},
                                  checked_at |-> now, valid_until |-> expires_at,
                                  refresh |-> None]
               /\ UNCHANGED <<token, expires_at>>
          ELSE IF token_stale(now, expires_at, token)
               THEN /\ token' = refresh(answered)[1]
                    /\ expires_at' = refresh(answered)[2]
                    /\ server_call' =
                          IF answered
                          THEN [outcome |-> "returned", sent_with |-> token',
                                checked_at |-> now, valid_until |-> expires_at',
                                refresh |-> "refreshed"]
                          ELSE [outcome |-> "raised", sent_with |-> {},
                                checked_at |-> now, valid_until |-> expires_at,
                                refresh |-> "failed"]
               ELSE /\ server_call' = [outcome |-> "returned", sent_with |-> token,
                                       checked_at |-> now, valid_until |-> expires_at,
                                       refresh |-> None]
                    /\ UNCHANGED <<token, expires_at>>
    /\ UNCHANGED <<orchVars, audioVars, sttVars, transVars, detVars, rendVars,
                   handlerVars, now, initVars, eventVars, callbackVars, callVars>>

\* connect(sid, environ, auth), lines 123-132: the token is refreshed, and a
\* failure of the refresh is ignored
connect ==
    /\ \E answered \in BOOLEAN :
          /\ token' = refresh(answered)[1]
          /\ expires_at' = refresh(answered)[2]
    /\ UNCHANGED <<orchVars, audioVars, sttVars, transVars, detVars, rendVars,
                   handlerVars, now, initVars, eventVars, callbackVars, callVars,
                   server_call>>

\* time passes on the server
ServerTick ==
    /\ now < StartTime + MaxHalfLifetimes * HalfLifetime
    /\ now' = now + HalfLifetime
    /\ UNCHANGED <<nonRendVars, rendVars, auxVars>>

ServerNext ==
    \/ speech_to_text
    \/ connect
    \/ ServerTick

ServerSpec == Init /\ [][ServerNext]_vars

----------------------------------------------------------------------------
\* the window is closed (app.py on_close calls cleanup()) in any state of the
\* pipeline, with captions inserted and evicted through the renderer
CleanupNext ==
    \/ \E c \in DOMAIN ctl : start_begin(c)
    \/ \E c \in DOMAIN ctl : start_recognition(c)
    \/ \E c \in DOMAIN ctl : start_recognizer(c)
    \/ \E c \in DOMAIN ctl : start_recognizing(c)
    \/ \E c \in DOMAIN ctl : start_finish(c)
    \/ \E c \in DOMAIN ctl : cleanup_begin(c)
    \/ \E c \in DOMAIN ctl : cleanup_stop_stream_returned(c)
    \/ \E c \in DOMAIN ctl : cleanup_stop_speech(c)
    \/ \E c \in DOMAIN ctl : cleanup_stop_speech_stopped(c)
    \/ \E c \in DOMAIN ctl : cleanup_stop_finish(c)
    \/ \E c \in DOMAIN ctl : cleanup_audio(c)
    \/ \E c \in DOMAIN ctl : cleanup_audio_close(c)
    \/ \E c \in DOMAIN ctl : cleanup_speech(c)
    \/ \E c \in DOMAIN ctl : cleanup_recognizer(c)
    \/ \E c \in DOMAIN ctl : cleanup_renderer(c)
    \/ init_subtitle_renderer
    \/ canceled_callback
    \/ session_stopped_callback
    \/ (renderer /\ ShowSubtitleCall)

CleanupSpec == Init /\ [][CleanupNext]_vars

\* initialize(), start() and stop() while the PortAudio threads run the audio
\* callback
AudioCallbackNext ==
    \/ \E c \in DOMAIN ctl : initialize(c)
    \/ \E c \in DOMAIN ctl : initialize_preprocessing(c)
    \/ \E c \in DOMAIN ctl : initialize_speech(c)
    \/ \E c \in DOMAIN ctl : initialize_return(c)
    \/ \E c \in DOMAIN ctl : start_begin(c)
    \/ \E c \in DOMAIN ctl : start_recognition(c)
    \/ \E c \in DOMAIN ctl : start_recognizer(c)
    \/ \E c \in DOMAIN ctl : start_recognizing(c)
    \/ \E c \in DOMAIN ctl : start_finish(c)
    \/ \E c \in DOMAIN ctl : stop_begin(c)
    \/ \E c \in DOMAIN ctl : stop_stream_returned(c)
    \/ \E c \in DOMAIN ctl : stop_speech(c)
    \/ \E c \in DOMAIN ctl : stop_speech_stopped(c)
    \/ \E c \in DOMAIN ctl : stop_finish(c)
    \/ init_subtitle_renderer
    \/ session_stopped_callback
    \/ \E s \in StreamKinds : audio_callback_test(s)
    \/ \E s \in StreamKinds : audio_callback_deliver(s)

AudioCallbackSpec == Init /\ [][AudioCallbackNext]_vars

\* two threads call start() on the same object, and the recognizer delivers
\* results; stop() is not called
ConcurrentStartInit ==
    /\ Constructed("en", {"ui", "worker"})
    /\ adapters = Adapters
    /\ registered_callbacks = Callbacks
    /\ ConstructedRenderer
    /\ renderer = FALSE
    /\ gui_threads_starting = 1
    /\ max_lines = OrchestratorMaxLines

ConcurrentStartNext ==
    \/ \E c \in DOMAIN ctl : start_begin(c)
    \/ \E c \in DOMAIN ctl : start_recognition(c)
    \/ \E c \in DOMAIN ctl : start_recognition_stopped(c)
    \/ \E c \in DOMAIN ctl : start_recognizer(c)
    \/ \E c \in DOMAIN ctl : start_recognizing(c)
    \/ \E c \in DOMAIN ctl : start_finish(c)
    \/ init_subtitle_renderer
    \/ recognizing_callback
    \/ recognized_callback
    \/ session_stopped_callback

ConcurrentStartSpec == ConcurrentStartInit /\ [][ConcurrentStartNext]_vars

----------------------------------------------------------------------------
(* Claims about failed and repeated start() and stop(), checked under
   LifecycleSpec and ConcurrentStartSpec *)

\* C21: after a start() that failed because starting the recognizer raised,
\* the audio source is not recording and the orchestrator is not running.
C21_FailedStartStopsAudio ==
    \A c \in DOMAIN ctl :
        (ctl[c] = "idle" /\ result[c] = [op |-> "start", value |-> "RuntimeError"])
            => (~is_recording /\ ~is_running)

\* C22: in every reachable state at most one audio stream is capturing and
\* at most one recognition session is open.
C22_AtMostOneCapture ==
    active_streams <= 1

\* C23: of two start() calls that overlap while the orchestrator is not
\* running, at most one returns True.
C23_AtMostOneStartSucceeds ==
    ~ \A c \in DOMAIN ctl :
          ctl[c] = "idle" /\ result[c] = [op |-> "start", value |-> "True"]

\* C24: stop() called while is_running is false returns False and changes
\* nothing: neither the audio capture nor the recognizer is stopped, the
\* renderer is not cleared and is_running stays false.
C24_StopWhileNotRunningIsNoOp ==
    [][\A c \in DOMAIN ctl :
          (~is_running /\ ctl[c] = "idle") =>
              /\ ctl'[c] \notin {"stop_stream", "stop_recognition"}
              /\ (result'[c] # result[c] /\ result'[c].op = "stop") =>
                    /\ result'[c].value = "False"
                    /\ UNCHANGED <<is_running, current_language, renderer, ctl,
                                   audioVars, sttVars, transVars, detVars, rendVars,
                                   handlerVars, now>>]_vars

\* a stop() made after a start() that failed in the recognizer has returned
\* False, and the audio capture it did not touch is still recording
C24_Witness ==
    /\ ~is_running
    /\ is_recording
    /\ active_streams = 1
    /\ \E c \in DOMAIN ctl :
          ctl[c] = "idle" /\ result[c] = [op |-> "stop", value |-> "False"]

----------------------------------------------------------------------------
(* A claim about clear(), checked under RendererSpec *)

\* C26: when clear() has been called, the caption list is empty, no eviction
\* timer is pending and the call has completed normally, also when the list
\* was already empty.
C26_ClearEmptiesAndReturns ==
    render_outcome.method = "clear" =>
        /\ subtitles = <<>>
        /\ pending = {}
        /\ render_outcome.outcome = "returned"

----------------------------------------------------------------------------
(* Claims about the handling of one transcript, checked under DetectionSpec,
   TargetLanguageSpec and Spec *)

\* C25: a transcript handled while is_running is false has no effect: no
\* language detection, no translator call, no caption, and the language
\* hypothesis, the detection cache and the recognizer stay as they are, also
\* in every later step.
C25_TranscriptIgnoredWhenNotRunning ==
    [][\A i \in 1..Len(handlers') :
          /\ (i > Len(handlers) /\ ~is_running) =>
                /\ handlers'[i].pc = "ignored"
                /\ handlers'[i].detection = {}
                /\ handlers'[i].request = {}
                /\ handlers'[i].translated = {}
                /\ UNCHANGED <<current_language, sttVars, detVars, transVars,
                               rendVars, inserted, translate_invoked>>
          /\ (i <= Len(handlers) /\ handlers[i].pc = "ignored") =>
                handlers'[i] = handlers[i]]_vars

\* a final transcript long enough for detection was handled while not running
C25_Witness ==
    /\ ~is_running
    /\ \E i \in 1..Len(handlers) :
          /\ ~handlers[i].running
          /\ handlers[i].is_final
          /\ Len(handlers[i].text) > DetectMinLen
          /\ handlers[i].pc = "ignored"

\* C27: translate_text called with a whitespace-only text and a source language
\* other than the target language makes no request and returns that text
\* unchanged as the translated text.
C27_BlankTextReturnedUnchanged ==
    [][\A i \in translate_invoked' \ translate_invoked :
          (Strip(handlers'[i].text) = <<>> /\ current_language' # target_language) =>
              /\ handlers'[i].pc \notin {"building request", "translating"}
              /\ handlers'[i].request = {}
              /\ handlers'[i].translated = {handlers'[i].text}]_vars

\* C28: when the translation request raises or comes back with a response that
\* is not a success with a translation in it, translate_text returns the
\* original text as the translated text and raises nothing.  The handler that
\* called it goes on to lines 193-194 with that text: it returns when there is
\* no renderer, and otherwise gives the text to show_subtitle, which appends
\* it as a caption line; the NameError the handler then ends in is raised by
\* show_subtitle, line 90 of subtitle_renderer.py.
C28_FailedTranslationReturnsText ==
    [][\A i \in 1..Len(handlers) :
          (handlers[i].pc = "translating" /\ handlers'[i].pc # "translating") =>
              ("failed" \in handlers'[i].response =>
                  /\ handlers'[i].translated = {handlers[i].text}
                  /\ IF renderer
                     THEN /\ handlers'[i].pc = "NameError"
                          /\ render_outcome' = [method |-> "show_subtitle",
                                                outcome |-> "NameError"]
                          /\ subtitles' # <<>>
                          /\ subtitles'[Len(subtitles')].text = handlers[i].text
                          /\ inserted' = Append(inserted, i)
                     ELSE /\ handlers'[i].pc = "returned"
                          /\ UNCHANGED <<subtitles, inserted>>)]_vars

\* a request from "es" to "en" failed and the call returned the text it was
\* given, which the handler gave to the renderer
C28_Witness ==
    \E i \in 1..Len(handlers) :
        /\ handlers[i].response = {"failed"}
        /\ handlers[i].request = {[from |-> "es", to |-> "en"]}
        /\ handlers[i].translated = {handlers[i].text}
        /\ handlers[i].pc = "NameError"
        /\ renderer
        /\ subtitles # <<>>
        /\ subtitles[Len(subtitles)].text = handlers[i].text

\* C29: the step in which a translation request or a language-identification
\* request fails leaves is_running as it is, and the handler does not end in
\* an error.
C29_ServiceFailureAbsorbed ==
    [][\A i \in 1..Len(handlers) :
          (\/ /\ handlers[i].pc = "translating"
              /\ handlers'[i].pc # "translating"
              /\ "failed" \in handlers'[i].response
           \/ /\ handlers[i].pc = "detecting"
              /\ handlers'[i].pc # "detecting"
              /\ \E d \in handlers'[i].detection : ~d.accepted)
          => /\ is_running' = is_running
             /\ handlers'[i].pc # "NameError"]_vars

\* C30: every translate_text call that has sent its request ends, also when
\* the translation service never answers.
C30_TranslateCallTerminates ==
    \A i \in 1..MaxTranscripts :
        (i <= Len(handlers) /\ handlers[i].pc = "translating")
            ~> (i <= Len(handlers) /\ handlers[i].pc # "translating")

----------------------------------------------------------------------------
(* Claims about the recognizer's events, the audio callback and cleanup() *)

\* C31: a step in which the recognition service ends the session while the
\* orchestrator is running, no start() or stop() call being the cause, leaves
\* the orchestrator not running.
C31_CancellationLeavesRunning ==
    [][(is_running /\ session_active /\ ~session_active'
        /\ ctl' = ctl /\ handlers' = handlers) => ~is_running']_vars

\* C32: when initialize() has ended without returning True, the orchestrator
\* holds no adapter.
C32_FailedInitializeRollsBack ==
    \A c \in DOMAIN ctl :
        (ctl[c] = "idle" /\ result[c].op = "initialize" /\ result[c].value # "True")
            => adapters = {}

\* C33: a final recognition event whose reason is not RecognizedSpeech creates
\* no transcript event: no handler is created for it, and nothing is
\* translated, detected or shown.
C33_UnrecognizedEventNoTranscript ==
    [][unrecognized_events' > unrecognized_events =>
          UNCHANGED <<handlerVars, rendVars, transVars, detVars,
                      current_language>>]_vars

\* the running recognizer has reported a final result it did not recognize,
\* and there is no handler
C33_Witness ==
    /\ unrecognized_events > 0
    /\ is_running
    /\ session_active
    /\ handlers = <<>>

\* C34: the audio callback gives a frame to the sink only between start and
\* stop: a frame is delivered while is_recording is set or while a caller is
\* still inside stop_recording(), waiting for the callback; no frame is
\* delivered after stop_recording() has returned and before the next
\* start_recording().
C34_NoFrameAfterStop ==
    [][\A s \in StreamKinds :
          (/\ InFlight(in_callback') < InFlight(in_callback)
           /\ in_callback'[s] < in_callback[s])
          => \/ recording_of(s)
             \/ \E c \in DOMAIN ctl : ctl[c] \in InsideStopRecording]_vars

\* C35: the pipeline can be restarted: a stop() called while running returns
\* True and leaves the orchestrator not running, the audio capture not
\* recording and no recognition session active, so that the next start()
\* passes its guard.
C35_StopLeavesRestartable ==
    \A c \in DOMAIN ctl :
        (ctl[c] = "idle" /\ result[c].op = "stop" /\ result[c].value # "False")
            => /\ result[c].value = "True"
               /\ ~is_running
               /\ ~is_recording
               /\ open_sessions = 0

\* C36: between the renderer's operations an eviction timer is pending if and
\* only if caption lines are displayed (so that displayed lines are removed
\* when nothing more is inserted).
C36_TimerPendingIffCaptions ==
    (pending # {}) <=> (subtitles # <<>>)

\* C37: at the end of cleanup() the orchestrator is not running, the audio
\* capture is not recording, no recognition session is active, no caption is
\* displayed and no eviction timer is pending.
C37_CleanupLeavesNothingRunning ==
    [][\A c \in DOMAIN ctl :
          (ctl[c] # "closed" /\ ctl'[c] = "closed") =>
              /\ ~is_running'
              /\ ~is_recording'
              /\ open_sessions' = 0
              /\ subtitles' = <<>>
              /\ pending' = {}]_vars

\* C38: when the microphone cannot be opened inside start(), start() returns
\* False, the orchestrator is still not running, and neither the audio
\* capture nor the recognizer has been started: no stream is added, the
\* recording flag and the recognition session are as they were.
C38_MicrophoneFailureStartsNothing ==
    [][\A c \in DOMAIN ctl :
          (/\ ~is_running
           /\ ctl[c] = "idle"
           /\ result'[c] # result[c]
           /\ result'[c] = [op |-> "start", value |-> "False"])
          => /\ ~is_running'
             /\ ctl'[c] = "idle"
             /\ UNCHANGED <<audioVars, sttVars, in_callback>>]_vars

C38_Witness ==
    \E c \in DOMAIN ctl :
        /\ ~is_running
        /\ ctl[c] = "idle"
        /\ result[c] = [op |-> "start", value |-> "False"]
        /\ ~is_recording
        /\ ~session_active
        /\ active_streams = 0

\* C39: speech_to_text sends the recognition request only with a token that
\* is present and whose expiry lay after the time of the test; a token that
\* was absent or expired has been refreshed first; when the refresh fails no
\* request is sent and the call raises.
C39_RequestOnlyWithValidToken ==
    /\ server_call.sent_with # {} =>
          /\ server_call.checked_at < server_call.valid_until
          /\ server_call.outcome = "returned"
    /\ server_call.refresh = "failed" =>
          /\ server_call.sent_with = {}
          /\ server_call.outcome = "raised"
    /\ server_call.outcome = "returned" => server_call.sent_with # {}

\* a request sent with the cached token, which was not refreshed
C39_Witness ==
    /\ server_call.outcome = "returned"
    /\ server_call.refresh = None
    /\ server_call.sent_with # {}
    /\ server_call.checked_at > StartTime

====
